---- MODULE Spec2Model ----
(***************************************************************************)
(* Theme State Controller of hello-gp (crates/hello-gp/src/themes.rs and   *)
(* the older copy src/themes.rs).                                          *)
(*                                                                         *)
(* State: the contents of state.json, the framework's global Theme, the    *)
(* Theme Registry, what init has installed (watcher, observer, action      *)
(* handlers) and the position of init / the event loop.                    *)
(*                                                                         *)
(* The GUI framework is a collaborator: the model keeps of it only what    *)
(* the controller's code relies on at its call sites (Theme::apply_config, *)
(* Theme::theme_name, Theme::change, observe_global, watch_dir).           *)
(***************************************************************************)
EXTENDS Integers, Sequences, FiniteSets, TLC

(* ------------------------------------------------------------------ *)
(* Bounds and value sets                                               *)
(* ------------------------------------------------------------------ *)

\* Number of distinct on-disk revisions a theme's configuration can take.
MaxVersion == 1

DefaultLight == "Default Light"
DefaultDark == "Default Dark"
Ocean == "Ocean"

\* Theme names that appear in state.json, the registry and actions.
Names == {DefaultLight, DefaultDark, Ocean}

\* ThemeMode of the collaborator.
Modes == {"light", "dark"}

\* The mode a theme's configuration declares (ThemeConfig.mode).
ModeOf(name) == IF name = DefaultLight THEN "light" ELSE "dark"

\* ScrollbarShow values of the collaborator (a sample of the enumeration).
Shows == {"scrolling", "hover"}

\* Option::None
None == "None"

\* No watcher callback installed.
NoWatcher == "no watcher"

(* ------------------------------------------------------------------ *)
(* state.json as a document                                            *)
(* ------------------------------------------------------------------ *)

Missing == "<missing>"
Null == "null"
Bogus == "bogus"

\* A text document: absent / unreadable file, empty text, text that is not
\* JSON, or a JSON object with some of the fields theme, scrollbar_show and
\* one unknown field.
Doc(kind, theme, sb, extra) ==
    [kind |-> kind, theme |-> theme, sb |-> sb, extra |-> extra]

NoFile == Doc("absent", Missing, Missing, FALSE)
EmptyText == Doc("empty", Missing, Missing, FALSE)
Garbage == Doc("garbage", Missing, Missing, FALSE)

Objects ==
    { Doc("object", t, s, e) :
        t \in Names \cup {Missing},
        s \in Shows \cup {Null, Missing, Bogus},
        e \in BOOLEAN }

Docs == {NoFile, EmptyText, Garbage} \cup Objects

(* ------------------------------------------------------------------ *)
(* struct State and its serde forms                                    *)
(* ------------------------------------------------------------------ *)

\* struct State { theme, scrollbar_show: Option<ScrollbarShow> }
State(theme, scrollbar_show) ==
    [theme |-> theme, scrollbar_show |-> scrollbar_show]

\* impl Default for State
State_default == State(DefaultLight, None)

\* std::fs::read_to_string(config_path).unwrap_or(String::default()):
\* an absent or unreadable file reads as the empty text.
read_to_string(doc) == IF doc.kind = "absent" THEN EmptyText ELSE doc

\* serde_json::from_str::<State>: Ok for a JSON object whose theme field is
\* present and whose scrollbar_show, when present, is null or a variant;
\* unknown fields are skipped, a missing Option field reads as None, a
\* missing theme is an error (the struct carries no serde(default)).
from_str_ok(text) ==
    /\ text.kind = "object"
    /\ text.theme # Missing
    /\ text.sb # Bogus

from_str_value(text) ==
    State(text.theme, IF text.sb \in Shows THEN text.sb ELSE None)

\* Variant of load: a failed parse keeps the fields it could read and
\* defaults only the others.
load_per_field(text) ==
    IF text.kind = "object"
    THEN State(IF text.theme = Missing THEN DefaultLight ELSE text.theme,
               IF text.sb \in Shows THEN text.sb ELSE None)
    ELSE State_default

\* serde_json::from_str::<State>(&json).unwrap_or_default()
load(text) ==
    IF from_str_ok(text) THEN from_str_value(text) ELSE State_default

\* Variant of to_string_pretty: None is written as text that is no variant.
to_string_pretty_none_text(s) ==
    Doc("object", s.theme,
        IF s.scrollbar_show = None THEN Bogus ELSE s.scrollbar_show, FALSE)

\* serde_json::to_string_pretty(&state): both fields written, None as null.
to_string_pretty(s) ==
    Doc("object", s.theme,
        IF s.scrollbar_show = None THEN Null ELSE s.scrollbar_show, FALSE)

(* ------------------------------------------------------------------ *)
(* The collaborator's global Theme                                     *)
(* ------------------------------------------------------------------ *)

\* A theme configuration held by the registry: its name and the revision of
\* its definition file (0: the framework's built-in configuration).
Config(name, version) == [name |-> name, version |-> version]

\* The global Theme before the controller touches it.
Theme_default ==
    [mode |-> "light",
     light |-> Config(DefaultLight, 0),
     dark |-> Config(DefaultDark, 0),
     scrollbar_show |-> "scrolling"]

\* Theme::apply_config(&config): the configuration takes the slot of its
\* mode and the Theme switches to that mode.
apply_config(t, config) ==
    IF ModeOf(config.name) = "dark"
    THEN [t EXCEPT !.dark = config, !.mode = "dark"]
    ELSE [t EXCEPT !.light = config, !.mode = "light"]

\* The configuration the Theme renders with.
active_config(t) == IF t.mode = "dark" THEN t.dark ELSE t.light

\* cx.theme().theme_name()
theme_name(t) == active_config(t).name

\* Theme::change(mode, None, cx): switch to the configuration held for mode.
change(t, mode) == [t EXCEPT !.mode = mode]

\* ThemeRegistry::global(cx).themes(): name -> revision, 0 when absent.
Registries == [Names -> 0..MaxVersion]

\* The None of Option<Rc<ThemeConfig>>.
NoConfig == Config(Missing, 0)

\* themes().get(&name).cloned()
themes_get(reg, name) ==
    IF reg[name] = 0 THEN NoConfig ELSE Config(name, reg[name])

\* What a callback did to the global Theme: the Theme after it, and whether
\* it took Theme::global_mut (which publishes a notification to observers).
Mutated(t) == [theme |-> t, published |-> TRUE]
Untouched(t) == [theme |-> t, published |-> FALSE]

(* ------------------------------------------------------------------ *)
(* Path resolver                                                       *)
(* ------------------------------------------------------------------ *)

\* An environment variable that is not set, or set to bytes that are not
\* valid Unicode.
Unset == "<unset>"
NotUnicode == "<not unicode>"

\* Values {PROJECT}_CONFIG and {PROJECT}_DATA take in the environment.
EnvPaths == {"/tmp/a", "/tmp/b"}
EnvValues == {Unset, NotUnicode} \cup EnvPaths

\* A lazy_static cell that has not been dereferenced yet.
Uninit == "<uninit>"

\* proj_dirs.config_local_dir() / proj_dirs.data_local_dir()
OsConfigDir == "<os config_local_dir>"
OsDataDir == "<os data_local_dir>"

\* No call of the resolver has returned yet.
NoPath == "<no path>"

\* std::env::var(name).ok(): Some(value) only for a variable that is set
\* and valid Unicode; both error cases become None.
env_var_ok(value) ==
    IF value \in {Unset, NotUnicode} THEN None ELSE value

\* Variant of lazy_deref: the variable is read again on every use.
lazy_deref_reread(cell, value) == env_var_ok(value)

\* Dereferencing a lazy_static: the initializer runs on the first use only.
lazy_deref(cell, value) == IF cell = Uninit THEN env_var_ok(value) ELSE cell

\* get_config_dir(): override, else OS directory, else ./.config
get_config_dir(config_folder, os) ==
    IF config_folder # None THEN config_folder
    ELSE IF os THEN OsConfigDir
    ELSE "./.config"

\* get_data_dir(): override, else OS directory, else ./.data
get_data_dir(data_folder, os) ==
    IF data_folder # None THEN data_folder
    ELSE IF os THEN OsDataDir
    ELSE "./.data"

(* ------------------------------------------------------------------ *)
(* State                                                               *)
(* ------------------------------------------------------------------ *)

VARIABLES
    copy,       \* which copy of the controller the build uses
    pc,         \* position of init, then "run" (event loop) or "crashed"
    file,       \* config_dir/state.json
    state,      \* init's local `state`
    watcher,    \* state.theme captured by the installed watch_dir callback
    theme,      \* the global Theme
    registry,   \* the Theme Registry
    observer,   \* observe_global::<Theme> closure installed
    handlers,   \* on_action handlers installed on the app
    refreshed,  \* cx.refresh_windows() has been called
    notify,     \* a global-Theme notification awaits the observer
    last,       \* the last step taken: operation, argument, theme name before
    watchers,   \* number of watchers ThemeRegistry::watch_dir has installed
    env,        \* the process environment: {PROJECT}_CONFIG, {PROJECT}_DATA
    start_env,  \* the environment the process was started with
    CONFIG_FOLDER,  \* lazy_static CONFIG_FOLDER
    DATA_FOLDER,    \* lazy_static DATA_FOLDER
    os_dirs,    \* ProjectDirs::from(..) returns Some
    ret,        \* what get_config_dir() / get_data_dir() last returned
    dirs,       \* directories that exist on disk
    rt_in,      \* round trip: the State serialized
    rt_out      \* round trip: the State read back

\* The path resolver's state.
pathvars == <<env, start_env, CONFIG_FOLDER, DATA_FOLDER, os_dirs, ret, dirs>>

\* The round trip's state.
rtvars == <<rt_in, rt_out>>

vars ==
    <<copy, pc, file, state, watcher, theme, registry, observer, handlers,
      refreshed, notify, last, watchers, env, start_env, CONFIG_FOLDER,
      DATA_FOLDER, os_dirs, ret, dirs, rt_in, rt_out>>

Copies == {"crate", "root"}

\* init's local after init returned (or before it is assigned).
NoState == State(Missing, None)

Step(op, arg) == [op |-> op, arg |-> arg, prev |-> theme_name(theme)]

\* Nothing installed, nothing resolved, the global Theme untouched.
Fresh ==
    /\ state = NoState
    /\ watcher = NoWatcher
    /\ watchers = 0
    /\ theme = Theme_default
    /\ observer = FALSE
    /\ handlers = FALSE
    /\ refreshed = FALSE
    /\ notify = FALSE
    /\ last = [op |-> "start", arg |-> None, prev |-> DefaultLight]
    /\ start_env = env
    /\ CONFIG_FOLDER = Uninit
    /\ DATA_FOLDER = Uninit
    /\ ret = [config |-> NoPath, data |-> NoPath]
    /\ dirs = {}
    /\ rt_out = NoState

Init ==
    /\ copy \in Copies
    /\ pc = "load"
    /\ file \in Docs
    /\ registry \in Registries
    /\ env = [config |-> Unset, data |-> Unset]
    /\ os_dirs = TRUE
    /\ rt_in = NoState
    /\ Fresh

(* ------------------------------------------------------------------ *)
(* The controller's callbacks                                          *)
(* ------------------------------------------------------------------ *)

\* Variant of watch_callback: re-applies the saved theme only while it is
\* still the active one.
watch_callback_if_active(t, reg, saved) ==
    LET found == themes_get(reg, saved)
    IN  IF found # NoConfig /\ theme_name(t) = saved
        THEN Mutated(apply_config(t, found))
        ELSE Untouched(t)

\* Variant of watch_callback: re-applies the theme named in state.json as it
\* is now, not the name captured when the callback was built.
watch_callback_persisted(t, reg, saved) ==
    LET found == themes_get(reg, load(read_to_string(file)).theme)
    IN  IF found # NoConfig
        THEN Mutated(apply_config(t, found))
        ELSE Untouched(t)

\* The watch_dir callback: look the saved name up in the registry as it is
\* now and apply its configuration when present.
watch_callback(t, reg, saved) ==
    LET found == themes_get(reg, saved)
    IN  IF found # NoConfig
        THEN Mutated(apply_config(t, found))
        ELSE Untouched(t)

\* Variant of observer_state: carries no scrollbar setting.
observer_state_none(t) == State(theme_name(t), None)

\* Variant of observer_state: reads the light slot whatever the mode.
observer_state_light(t) == State(t.light.name, t.scrollbar_show)

\* The observe_global::<Theme> closure's State: the Theme's current name
\* and Some(current scrollbar setting).
observer_state(t) == State(theme_name(t), t.scrollbar_show)

\* crate copy: `if let Ok(json) = .. { let _ = std::fs::write(..) }`.
\* The outcome of the write is the file system's: ok or an error.
write_ignored(old, json, ok) ==
    [file |-> IF ok THEN json ELSE old, panicked |-> FALSE]

\* root copy: `std::fs::write(config_path, json).unwrap()`.
write_unwrap(old, json, ok) ==
    [file |-> IF ok THEN json ELSE old, panicked |-> ~ok]

\* Variant of on_switch_theme: looks up the active name, not the payload.
on_switch_theme_active(t, reg, name) ==
    LET theme_config == themes_get(reg, theme_name(t))
    IN  IF theme_config # NoConfig
        THEN Mutated(apply_config(t, theme_config))
        ELSE Untouched(t)

\* Variant of on_switch_theme: takes Theme::global_mut before the lookup.
on_switch_theme_eager(t, reg, name) ==
    LET theme_config == themes_get(reg, name)
    IN  IF theme_config # NoConfig
        THEN Mutated(apply_config(t, theme_config))
        ELSE Mutated(t)

\* crate copy: cx.on_action(|switch: &SwitchTheme, cx| ..)
on_switch_theme(t, reg, name) ==
    LET theme_config == themes_get(reg, name)
    IN  IF theme_config # NoConfig
        THEN Mutated(apply_config(t, theme_config))
        ELSE Untouched(t)

\* root copy: the SwitchTheme listener of ThemeSwitcher::render.
listener_switch_theme(t, reg, name) ==
    LET theme_config == themes_get(reg, name)
    IN  IF theme_config # NoConfig
        THEN Mutated(apply_config(t, theme_config))
        ELSE Untouched(t)

\* crate copy: cx.on_action(|switch: &SwitchThemeMode, cx| ..)
on_switch_theme_mode(t, mode) == Mutated(change(t, mode))

\* Variant of Publish: a mutation is also announced to an observer that is
\* installed after it.
Publish_always(published) == notify' = (notify \/ published)

\* A mutation of the global Theme reaches the observers installed by then.
Publish(published) == notify' = (notify \/ (observer /\ published))

(* ------------------------------------------------------------------ *)
(* init                                                                *)
(* ------------------------------------------------------------------ *)

\* read_to_string + from_str + unwrap_or_default
InitLoad ==
    /\ pc = "load"
    /\ CONFIG_FOLDER' = lazy_deref(CONFIG_FOLDER, env.config)
    /\ DATA_FOLDER' = lazy_deref(DATA_FOLDER, env.data)
    /\ ret' = [config |-> get_config_dir(CONFIG_FOLDER', os_dirs),
               data |-> get_data_dir(DATA_FOLDER', os_dirs)]
    /\ state' = load(read_to_string(file))
    /\ pc' = "watch"
    /\ last' = Step("init", "load")
    /\ UNCHANGED <<copy, file, watcher, theme, registry, observer, handlers,
                   refreshed, notify>>
    /\ UNCHANGED <<watchers, env, start_env, os_dirs, dirs, rt_in, rt_out>>

\* Variant of InitWatchErr: the error is propagated and init returns.
InitWatchErr_return ==
    /\ pc = "watch"
    /\ pc' = "run"
    /\ state' = NoState
    /\ last' = Step("init", "watch_err")
    /\ UNCHANGED <<copy, file, watcher, theme, registry, observer, handlers,
                   refreshed, notify>>
    /\ UNCHANGED <<watchers, pathvars, rtvars>>

\* ThemeRegistry::watch_dir returned Err: logged, the callback is dropped.
InitWatchErr ==
    /\ pc = "watch"
    /\ pc' = "scrollbar"
    /\ last' = Step("init", "watch_err")
    /\ UNCHANGED <<copy, file, state, watcher, theme, registry, observer,
                   handlers, refreshed, notify>>
    /\ UNCHANGED <<watchers, pathvars, rtvars>>

\* Variant of InitWatchOk: the directory is registered twice.
InitWatchOk_twice ==
    /\ pc = "watch"
    /\ watcher' = state.theme
    /\ pc' = "scrollbar"
    /\ last' = Step("init", "watch_ok")
    /\ UNCHANGED <<copy, file, state, theme, registry, observer, handlers,
                   refreshed, notify>>
    /\ watchers' = watchers + 2
    /\ UNCHANGED <<pathvars, rtvars>>

\* ThemeRegistry::watch_dir returned Ok: the callback, owning state.theme,
\* is installed.
InitWatchOk ==
    /\ pc = "watch"
    /\ watcher' = state.theme
    /\ pc' = "scrollbar"
    /\ last' = Step("init", "watch_ok")
    /\ UNCHANGED <<copy, file, state, theme, registry, observer, handlers,
                   refreshed, notify>>
    /\ watchers' = watchers + 1
    /\ UNCHANGED <<pathvars, rtvars>>

\* ThemeRegistry::watch_dir returned Ok and the registry ran its first load
\* of the directory inside the call, invoking the callback once.
InitWatchLoad ==
    /\ pc = "watch"
    /\ watcher' = state.theme
    /\ \E reg \in Registries :
        /\ registry' = reg
        /\ LET r == watch_callback(theme, reg, state.theme)
           IN  /\ theme' = r.theme
               /\ Publish(r.published)
    /\ pc' = "scrollbar"
    /\ last' = Step("init", "watch_load")
    /\ UNCHANGED <<copy, file, state, observer, handlers, refreshed>>
    /\ watchers' = watchers + 1
    /\ UNCHANGED <<pathvars, rtvars>>

\* Variant of InitScrollbar: the preference is applied only when the saved
\* theme is registered.
InitScrollbar_if_found ==
    /\ pc = "scrollbar"
    /\ IF state.scrollbar_show # None /\ registry[state.theme] # 0
       THEN /\ theme' = [theme EXCEPT !.scrollbar_show = state.scrollbar_show]
            /\ Publish(TRUE)
       ELSE UNCHANGED <<theme, notify>>
    /\ pc' = "refresh"
    /\ last' = Step("init", "scrollbar")
    /\ UNCHANGED <<copy, file, state, watcher, registry, observer, handlers,
                   refreshed>>
    /\ UNCHANGED <<watchers, pathvars, rtvars>>

\* if let Some(scrollbar_show) = state.scrollbar_show { global_mut.. }
InitScrollbar ==
    /\ pc = "scrollbar"
    /\ IF state.scrollbar_show # None
       THEN /\ theme' = [theme EXCEPT !.scrollbar_show = state.scrollbar_show]
            /\ Publish(TRUE)
       ELSE UNCHANGED <<theme, notify>>
    /\ pc' = "refresh"
    /\ last' = Step("init", "scrollbar")
    /\ UNCHANGED <<copy, file, state, watcher, registry, observer, handlers,
                   refreshed>>
    /\ UNCHANGED <<watchers, pathvars, rtvars>>

\* cx.refresh_windows()
InitRefresh ==
    /\ pc = "refresh"
    /\ refreshed' = TRUE
    /\ pc' = "observe"
    /\ last' = Step("init", "refresh")
    /\ UNCHANGED <<copy, file, state, watcher, theme, registry, observer,
                   handlers, notify>>
    /\ UNCHANGED <<watchers, pathvars, rtvars>>

\* cx.observe_global::<Theme>(..).detach(); the root copy's init ends here.
InitObserve ==
    /\ pc = "observe"
    /\ observer' = TRUE
    /\ IF copy = "crate"
       THEN pc' = "actions" /\ state' = state
       ELSE pc' = "run" /\ state' = NoState
    /\ last' = Step("init", "observe")
    /\ UNCHANGED <<copy, file, watcher, theme, registry, handlers, refreshed,
                   notify>>
    /\ UNCHANGED <<watchers, pathvars, rtvars>>

\* crate copy: the two cx.on_action calls, then init returns.
InitActions ==
    /\ pc = "actions"
    /\ handlers' = TRUE
    /\ pc' = "run"
    /\ state' = NoState
    /\ last' = Step("init", "actions")
    /\ UNCHANGED <<copy, file, watcher, theme, registry, observer, refreshed,
                   notify>>
    /\ UNCHANGED <<watchers, pathvars, rtvars>>

(* ------------------------------------------------------------------ *)
(* The event loop: one callback at a time, the observer before the     *)
(* next event                                                          *)
(* ------------------------------------------------------------------ *)

\* Variant of Idle: events are delivered while init is still running.
Idle_during_init == pc # "crashed" /\ ~notify

\* init has returned and no notification awaits the observer.
Idle == pc = "run" /\ ~notify

\* crate copy: SwitchTheme(name) dispatched to the app's handler.
SwitchTheme(name) ==
    /\ Idle
    /\ handlers
    /\ LET r == on_switch_theme(theme, registry, name)
       IN  /\ theme' = r.theme
           /\ Publish(r.published)
    /\ refreshed' = TRUE
    /\ last' = Step("SwitchTheme", name)
    /\ UNCHANGED <<copy, pc, file, state, watcher, registry, observer,
                   handlers>>
    /\ UNCHANGED <<watchers, pathvars, rtvars>>

\* root copy: SwitchTheme(name) dispatched to the picker view's listener,
\* which ends with cx.notify() (the view alone is redrawn).
ListenerSwitchTheme(name) ==
    /\ Idle
    /\ copy = "root"
    /\ LET r == listener_switch_theme(theme, registry, name)
       IN  /\ theme' = r.theme
           /\ Publish(r.published)
    /\ last' = Step("SwitchTheme", name)
    /\ UNCHANGED <<copy, pc, file, state, watcher, registry, observer,
                   handlers, refreshed>>
    /\ UNCHANGED <<watchers, pathvars, rtvars>>

\* crate copy: SwitchThemeMode(mode) dispatched to the app's handler.
SwitchThemeMode(mode) ==
    /\ Idle
    /\ handlers
    /\ LET r == on_switch_theme_mode(theme, mode)
       IN  /\ theme' = r.theme
           /\ Publish(r.published)
    /\ refreshed' = TRUE
    /\ last' = Step("SwitchThemeMode", mode)
    /\ UNCHANGED <<copy, pc, file, state, watcher, registry, observer,
                   handlers>>
    /\ UNCHANGED <<watchers, pathvars, rtvars>>

\* A file-system change under data_dir/themes: the registry reloads, then
\* the installed callback runs against the reloaded registry.
Reload ==
    /\ Idle
    /\ watcher # NoWatcher
    /\ \E reg \in Registries :
        /\ registry' = reg
        /\ LET r == watch_callback(theme, reg, watcher)
           IN  /\ theme' = r.theme
               /\ Publish(r.published)
    /\ last' = Step("Reload", watcher)
    /\ UNCHANGED <<copy, pc, file, state, watcher, observer, handlers,
                   refreshed>>
    /\ UNCHANGED <<watchers, pathvars, rtvars>>

\* The observer closure, run by the framework for the pending notification.
Observe ==
    /\ pc = "run"
    /\ notify
    /\ \E ok \in BOOLEAN :
        LET json == to_string_pretty(observer_state(theme))
            w == IF copy = "crate"
                 THEN write_ignored(file, json, ok)
                 ELSE write_unwrap(file, json, ok)
        IN  /\ file' = w.file
            /\ pc' = IF w.panicked THEN "crashed" ELSE "run"
            /\ last' = Step("Observe", IF ok THEN "ok" ELSE "failed")
    /\ notify' = FALSE
    /\ UNCHANGED <<copy, state, watcher, theme, registry, observer, handlers,
                   refreshed>>
    /\ UNCHANGED <<watchers, pathvars, rtvars>>

Next ==
    \/ InitLoad
    \/ InitWatchErr
    \/ InitWatchOk
    \/ InitWatchLoad
    \/ InitScrollbar
    \/ InitRefresh
    \/ InitObserve
    \/ InitActions
    \/ \E name \in Names : SwitchTheme(name)
    \/ \E name \in Names : ListenerSwitchTheme(name)
    \/ \E mode \in Modes : SwitchThemeMode(mode)
    \/ Reload
    \/ Observe

Spec == Init /\ [][Next]_vars

(* ------------------------------------------------------------------ *)
(* Round trip of struct State through state.json                       *)
(* ------------------------------------------------------------------ *)

\* Every State: any theme name, scrollbar_show None or Some(variant).
States == { State(t, sb) : t \in Names, sb \in Shows \cup {None} }

RtInit ==
    /\ copy = "crate"
    /\ pc = "rt_save"
    /\ file \in Docs
    /\ registry = [n \in Names |-> 0]
    /\ env = [config |-> Unset, data |-> Unset]
    /\ os_dirs = TRUE
    /\ rt_in \in States
    /\ Fresh

\* to_string_pretty(&state) and std::fs::write(config_path, json), the
\* write's error ignored.
RtSave ==
    /\ pc = "rt_save"
    /\ \E ok \in BOOLEAN :
        /\ file' = write_ignored(file, to_string_pretty(rt_in), ok).file
        /\ last' = Step("save", IF ok THEN "ok" ELSE "failed")
    /\ pc' = "rt_load"
    /\ UNCHANGED <<copy, state, watcher, theme, registry, observer, handlers,
                   refreshed, notify, watchers, pathvars, rtvars>>

\* read_to_string + from_str + unwrap_or_default on the same file.
RtLoad ==
    /\ pc = "rt_load"
    /\ rt_out' = load(read_to_string(file))
    /\ pc' = "rt_done"
    /\ UNCHANGED <<copy, file, state, watcher, theme, registry, observer,
                   handlers, refreshed, notify, last, watchers, pathvars,
                   rt_in>>

RtNext == RtSave \/ RtLoad

RoundTripSpec == RtInit /\ [][RtNext]_vars

(* ------------------------------------------------------------------ *)
(* The path resolver called on its own                                 *)
(* ------------------------------------------------------------------ *)

EnvVars == {"config", "data"}

\* The process starts with any environment; whether the OS lookup
\* (ProjectDirs::from) succeeds is fixed for the process.
PathInit ==
    /\ copy = "crate"
    /\ pc = "paths"
    /\ file = NoFile
    /\ registry = [n \in Names |-> 0]
    /\ env \in [EnvVars -> EnvValues]
    /\ os_dirs \in BOOLEAN
    /\ rt_in = NoState
    /\ Fresh

\* The process sets, changes or removes one of the two variables.
SetEnv(var, value) ==
    /\ pc = "paths"
    /\ env[var] # value
    /\ env' = [env EXCEPT ![var] = value]
    /\ last' = Step("set_var", var)
    /\ UNCHANGED <<copy, pc, file, state, watcher, theme, registry, observer,
                   handlers, refreshed, notify, watchers, start_env,
                   CONFIG_FOLDER, DATA_FOLDER, os_dirs, ret, dirs, rtvars>>

\* A call of get_config_dir().
GetConfigDir ==
    /\ pc = "paths"
    /\ CONFIG_FOLDER' = lazy_deref(CONFIG_FOLDER, env.config)
    /\ ret' = [ret EXCEPT !.config = get_config_dir(CONFIG_FOLDER', os_dirs)]
    /\ last' = Step("get_config_dir", None)
    /\ UNCHANGED <<copy, pc, file, state, watcher, theme, registry, observer,
                   handlers, refreshed, notify, watchers, env, start_env,
                   DATA_FOLDER, os_dirs, dirs, rtvars>>

\* A call of get_data_dir().
GetDataDir ==
    /\ pc = "paths"
    /\ DATA_FOLDER' = lazy_deref(DATA_FOLDER, env.data)
    /\ ret' = [ret EXCEPT !.data = get_data_dir(DATA_FOLDER', os_dirs)]
    /\ last' = Step("get_data_dir", None)
    /\ UNCHANGED <<copy, pc, file, state, watcher, theme, registry, observer,
                   handlers, refreshed, notify, watchers, env, start_env,
                   CONFIG_FOLDER, os_dirs, dirs, rtvars>>

PathNext ==
    \/ \E var \in EnvVars, value \in EnvValues : SetEnv(var, value)
    \/ GetConfigDir
    \/ GetDataDir

PathSpec == PathInit /\ [][PathNext]_vars

TypeOK ==
    /\ copy \in Copies
    /\ pc \in {"load", "watch", "scrollbar", "refresh", "observe", "actions",
               "run", "crashed"}
    /\ file \in Docs
    /\ watcher \in Names \cup {NoWatcher}
    /\ registry \in Registries
    /\ theme.mode \in Modes
    /\ theme.scrollbar_show \in Shows
    /\ observer \in BOOLEAN /\ handlers \in BOOLEAN
    /\ refreshed \in BOOLEAN /\ notify \in BOOLEAN

(* ------------------------------------------------------------------ *)
(* Properties                                                          *)
(* ------------------------------------------------------------------ *)

\* The record the observer is expected to leave on disk for Theme t.
Persisted(t) == Doc("object", theme_name(t), t.scrollbar_show, FALSE)

\* init has returned and the event loop has processed nothing yet
\* (state.json is still the file init read).
JustStarted == pc = "run" /\ last.op = "init"

\* C1. Save-on-change: when the observer has run for the latest mutation of
\* the global Theme and its write succeeded, state.json holds the Theme's
\* current theme name and current scrollbar setting.
C1_SaveOnChange ==
    (last.op = "Observe" /\ last.arg = "ok") => file = Persisted(theme)

\* C1 case: a successful save of a theme that is neither the one loaded at
\* init nor the framework default, with a non-default scrollbar setting.
C1_Witness ==
    /\ last.op = "Observe" /\ last.arg = "ok"
    /\ watcher = DefaultDark
    /\ file.theme = Ocean /\ file.sb = "hover"

\* C2. SwitchTheme(Y) with Y registered makes Y the global Theme's theme
\* name (and Y's registered configuration the active one), whatever the
\* theme was before.
C2_SwitchApplies ==
    (last.op = "SwitchTheme" /\ registry[last.arg] # 0) =>
        /\ theme_name(theme) = last.arg
        /\ active_config(theme) = Config(last.arg, registry[last.arg])

\* C2 case: a dispatch of a registered name while another theme was active.
C2_Witness ==
    /\ last.op = "SwitchTheme"
    /\ registry[last.arg] # 0
    /\ last.prev # last.arg
    /\ theme_name(theme) = last.arg

\* C3. SwitchTheme(name) with name not registered is dropped: the step
\* leaves the global Theme and state.json as they were and publishes no
\* notification, so the observer does not run for it.
C3_UnknownDropped ==
    [][(last'.op = "SwitchTheme" /\ registry[last'.arg] = 0) =>
        (theme' = theme /\ file' = file /\ ~notify')]_vars

\* C3 case: an unregistered name dispatched with the observer installed and
\* a record already saved.
C3_Witness ==
    /\ last.op = "SwitchTheme"
    /\ registry[last.arg] = 0
    /\ observer
    /\ file = Persisted(theme)
    /\ ~notify

\* C4. Every registry reload delivered to the watcher callback sets the
\* global Theme to the saved theme Z's post-reload configuration when the
\* reloaded registry contains Z, and leaves the global Theme unchanged when
\* it does not.
C4_WatcherReapply ==
    [][(last'.op = "Reload") =>
        IF registry'[watcher] # 0
        THEN /\ theme_name(theme') = watcher
             /\ active_config(theme') = Config(watcher, registry'[watcher])
        ELSE theme' = theme]_vars

\* C4 case: a reload re-applied Z while another theme was active.
C4_Witness ==
    /\ last.op = "Reload"
    /\ registry[watcher] # 0
    /\ last.prev # watcher
    /\ theme_name(theme) = watcher

\* C5. A failed write inside the observer never ends the process: the
\* event loop goes on and the global Theme keeps its value (both copies).
C5_WriteFailureTolerated ==
    (last.op = "Observe" /\ last.arg = "failed") =>
        /\ pc = "run"
        /\ ~notify

\* C6. A state.json that is absent, unreadable, empty or not a valid record
\* loads as the default state, and init runs through all its steps.
InvalidRecord(doc) ==
    \/ doc.kind \in {"absent", "empty", "garbage"}
    \/ doc.theme = Missing
    \/ doc.sb = Bogus

InitStep ==
    \/ InitLoad \/ InitWatchErr \/ InitWatchOk \/ InitWatchLoad
    \/ InitScrollbar \/ InitRefresh \/ InitObserve \/ InitActions

C6_LoadNeverFails ==
    /\ (pc \in {"watch", "scrollbar", "refresh", "observe", "actions"}
            /\ InvalidRecord(file))
        => state = State_default
    /\ (pc \notin {"run", "crashed"}) => ENABLED InitStep
    /\ (JustStarted /\ InvalidRecord(file)) =>
        /\ observer /\ refreshed
        /\ theme.scrollbar_show = Theme_default.scrollbar_show

\* C6 case: init has run to its end on a file that is not JSON.
C6_Witness == JustStarted /\ file = Garbage /\ observer /\ refreshed

\* C7. When watch_dir failed, init has still applied the loaded scrollbar
\* preference, refreshed the windows and installed the observer and (crate
\* copy) the action handlers; theme switches are applied and persisted.
C7_WatchFailureContinues ==
    (pc = "run" /\ watcher = NoWatcher) =>
        /\ observer /\ refreshed
        /\ (copy = "crate") => handlers
        /\ (JustStarted /\ load(read_to_string(file)).scrollbar_show # None)
            => theme.scrollbar_show = file.sb
        /\ (last.op = "SwitchTheme" /\ registry[last.arg] # 0)
            => (theme_name(theme) = last.arg /\ notify)
        /\ (last.op = "Observe" /\ last.arg = "ok")
            => file = Persisted(theme)

\* C7 case: without a watcher, a switch to Ocean was applied and saved.
C7_Witness ==
    /\ pc = "run" /\ watcher = NoWatcher
    /\ last.op = "Observe" /\ last.arg = "ok"
    /\ file.theme = Ocean
    /\ theme_name(theme) = Ocean

\* C8. Warm start: state.json holds theme N and preference S, the registry
\* contains N; when init has returned the global Theme is N with scrollbar
\* setting S and the windows have been refreshed.
C8_WarmStart ==
    (JustStarted /\ ~InvalidRecord(file) /\ registry[file.theme] # 0) =>
        /\ theme_name(theme) = file.theme
        /\ (file.sb \in Shows) => theme.scrollbar_show = file.sb
        /\ refreshed

\* C9. Warm start with a theme the registry lacks: init ends normally with
\* the framework's default theme still in place and the file's scrollbar
\* preference applied, and reloads that still lack the name leave the
\* global Theme alone.
C9_AfterInit ==
    (JustStarted /\ ~InvalidRecord(file) /\ registry[file.theme] = 0) =>
        /\ theme.mode = Theme_default.mode
        /\ theme.light = Theme_default.light
        /\ theme.dark = Theme_default.dark
        /\ theme.scrollbar_show =
            (IF file.sb \in Shows THEN file.sb
             ELSE Theme_default.scrollbar_show)

C9_MissingTheme ==
    /\ [](C9_AfterInit /\ (last.op \in {"start", "init"} => pc # "crashed"))
    /\ [][(last'.op = "Reload" /\ registry'[watcher] = 0) =>
            theme' = theme]_vars

\* C9 case: Ocean saved with preference hover, Ocean not registered.
C9_Witness ==
    /\ JustStarted
    /\ file.kind = "object" /\ file.theme = Ocean /\ file.sb = "hover"
    /\ registry[Ocean] = 0
    /\ watcher = Ocean
    /\ theme.scrollbar_show = "hover"
    /\ theme_name(theme) = DefaultLight

\* C10. A record with an unknown extra field loads as its theme and
\* scrollbar_show; a record missing one of the two fields loads with only
\* that field defaulted.
C10_FieldDefaults ==
    (pc = "watch" /\ file.kind = "object" /\ file.sb # Bogus
        /\ ~(file.theme = Missing /\ file.sb = Missing)) =>
        state = State(IF file.theme = Missing THEN DefaultLight
                      ELSE file.theme,
                      IF file.sb \in Shows THEN file.sb ELSE None)

\* C11. Round trip: a State saved to state.json and loaded back from the
\* same file is the State that was saved (the write having succeeded).
C11_RoundTrip ==
    (pc = "rt_done" /\ last.arg = "ok") => rt_out = rt_in

\* C11 case: a State with no scrollbar preference and a non-default theme
\* went through the file.
C11_Witness ==
    /\ pc = "rt_done" /\ last.arg = "ok"
    /\ rt_in = State(Ocean, None)
    /\ file = Doc("object", Ocean, Null, FALSE)
    /\ rt_out = rt_in

\* C12 as stated. Cold start (no state.json so far): the first record the
\* observer writes for the theme "Default Dark" has scrollbar_show = null.
C12_ColdStartNull ==
    [][(file = NoFile /\ last'.op = "Observe" /\ last'.arg = "ok"
            /\ theme_name(theme') = DefaultDark) =>
        file' = Doc("object", DefaultDark, Null, FALSE)]_vars

\* C12 amended. Cold start (no state.json so far): the first record the
\* observer writes for the theme "Default Dark" carries the global Theme's
\* current scrollbar setting, which is the framework's default; it is never
\* null.
C12_ColdStartCurrent ==
    [][(file = NoFile /\ last'.op = "Observe" /\ last'.arg = "ok"
            /\ theme_name(theme') = DefaultDark) =>
        /\ file' = Doc("object", DefaultDark, theme'.scrollbar_show, FALSE)
        /\ file'.sb = Theme_default.scrollbar_show]_vars

\* C12 case: still no state.json, the global Theme has been switched to
\* "Default Dark" and the observer is about to run for it.
C12_Witness ==
    /\ pc = "run" /\ file = NoFile
    /\ observer /\ notify
    /\ last.op = "SwitchTheme" /\ last.arg = DefaultDark
    /\ theme_name(theme) = DefaultDark

\* C13. Path precedence, on the call that reads the variable: config_dir()
\* returns {PROJECT}_CONFIG verbatim whenever it is set, else the OS local
\* config directory when the lookup succeeds, else ./.config; data_dir()
\* likewise with {PROJECT}_DATA, the OS local data directory and ./.data.
\* Neither call creates a directory.
C13_PathPrecedence ==
    [][/\ (CONFIG_FOLDER = Uninit /\ last'.op = "get_config_dir") =>
            /\ ret'.config = (IF env.config # Unset THEN env.config
                              ELSE IF os_dirs THEN OsConfigDir
                              ELSE "./.config")
            /\ dirs' = dirs
       /\ (DATA_FOLDER = Uninit /\ last'.op = "get_data_dir") =>
            /\ ret'.data = (IF env.data # Unset THEN env.data
                            ELSE IF os_dirs THEN OsDataDir
                            ELSE "./.data")
            /\ dirs' = dirs]_vars

\* C14 as stated. What config_dir() / data_dir() return is determined by the
\* values the two variables had at program start.
C14_ReadAtStart ==
    /\ ret.config # NoPath =>
            ret.config = get_config_dir(env_var_ok(start_env.config), os_dirs)
    /\ ret.data # NoPath =>
            ret.data = get_data_dir(env_var_ok(start_env.data), os_dirs)

\* C14 amended. Each variable is read once, by the first call that needs it,
\* and cached: the cached override never changes afterwards, whatever is done
\* to the environment, and a repeated call returns what the call before it
\* returned.
C14_ReadOnceCached ==
    [][/\ (CONFIG_FOLDER = Uninit /\ last'.op = "get_config_dir") =>
            CONFIG_FOLDER' = env_var_ok(env.config)
       /\ (DATA_FOLDER = Uninit /\ last'.op = "get_data_dir") =>
            DATA_FOLDER' = env_var_ok(env.data)
       /\ CONFIG_FOLDER # Uninit => CONFIG_FOLDER' = CONFIG_FOLDER
       /\ DATA_FOLDER # Uninit => DATA_FOLDER' = DATA_FOLDER
       /\ ret.config # NoPath => ret'.config = ret.config
       /\ ret.data # NoPath => ret'.data = ret.data]_vars

\* C14 case: config_dir() called again after {PROJECT}_CONFIG was removed
\* still returns the path cached by the first call.
C14_Witness ==
    /\ last.op = "get_config_dir"
    /\ start_env.config = "/tmp/a" /\ env.config = Unset
    /\ CONFIG_FOLDER = "/tmp/a" /\ ret.config = "/tmp/a"

\* The saved scrollbar preference, when there is one, is on the global Theme.
ScrollbarApplied ==
    state.scrollbar_show # None => theme.scrollbar_show = state.scrollbar_show

\* No user action and no watcher callback has been processed by the event
\* loop so far in init.
NoEventYet == last.op \in {"start", "init"}

\* C15 as stated. init runs load, apply saved selection, install watcher,
\* install observer, install handlers in this order, all before any event:
\* when init is about to install the watcher the saved selection has been
\* applied, the observer comes after the watcher and the handlers after the
\* observer, and no event is processed before init has returned.
C15_StartupOrder ==
    /\ pc = "watch" => ScrollbarApplied
    /\ observer => pc \notin {"load", "watch"}
    /\ handlers => observer
    /\ pc \notin {"run", "crashed"} => NoEventYet

\* C15 amended. init runs load, install watcher, apply the saved scrollbar
\* preference, refresh windows, install observer, install handlers (crate
\* copy) in this order, and no user action or watcher callback is processed
\* by the event loop before init has returned.
C15_InitOrder ==
    /\ pc = "load" =>
            /\ state = NoState /\ watchers = 0
            /\ ~refreshed /\ ~observer /\ ~handlers
    /\ pc = "watch" =>
            /\ state # NoState /\ watchers = 0 /\ theme = Theme_default
            /\ ~refreshed /\ ~observer /\ ~handlers
    /\ pc = "scrollbar" =>
            /\ last.arg \in {"watch_err", "watch_ok", "watch_load"}
            /\ theme.scrollbar_show = Theme_default.scrollbar_show
            /\ ~refreshed /\ ~observer /\ ~handlers
    /\ pc = "refresh" =>
            /\ ScrollbarApplied
            /\ ~refreshed /\ ~observer /\ ~handlers
    /\ pc = "observe" =>
            /\ ScrollbarApplied
            /\ refreshed /\ ~observer /\ ~handlers
    /\ pc = "actions" =>
            /\ copy = "crate"
            /\ refreshed /\ observer /\ ~handlers
    /\ pc = "run" => (observer /\ (handlers <=> copy = "crate"))
    /\ pc \notin {"run", "crashed"} => NoEventYet

\* C15 case: init of the crate copy has returned with everything installed,
\* the watcher for a saved theme and a saved scrollbar preference applied,
\* and no event processed yet.
C15_Witness ==
    /\ JustStarted /\ copy = "crate"
    /\ watchers = 1 /\ watcher = Ocean
    /\ file.sb = "hover" /\ theme.scrollbar_show = "hover"
    /\ refreshed /\ observer /\ handlers

\* The events that mutate the global Theme.
Mutations == {"SwitchTheme", "ListenerSwitchTheme", "SwitchThemeMode", "Reload"}

\* C16. init never writes state.json: no step of init changes the file or
\* leaves a notification for the observer, although the scrollbar preference
\* is written onto the global Theme; the file changes only when the observer
\* runs, and the observer runs only for a mutation made after init.
C16_InitNeverWrites ==
    [][/\ last'.op = "init" => (file' = file /\ ~notify')
       /\ file' # file => (last'.op = "Observe" /\ last.op \in Mutations)
       /\ (last'.op = "Observe" /\ last'.op # last.op) =>
                last.op \in Mutations]_vars

\* C16 case: init has returned after writing a saved scrollbar preference
\* onto the global Theme; the observer is installed, nothing is pending for
\* it and state.json is the file init read.
C16_Witness ==
    /\ JustStarted /\ observer /\ ~notify
    /\ file = Doc("object", DefaultLight, "hover", FALSE)
    /\ theme.scrollbar_show = "hover"
    /\ watcher = NoWatcher

\* C17 as stated. In every state after init exactly one theme-directory
\* watcher is installed.
C17_ExactlyOne ==
    pc \in {"run", "crashed"} => watchers = 1

\* C17 amended. At most one watcher is ever installed: none before init
\* calls watch_dir, afterwards one exactly when watch_dir returned Ok (the
\* one holding the callback) and none when it returned Err.
C17_AtMostOne ==
    /\ watchers \in {0, 1}
    /\ watchers = 1 <=> watcher # NoWatcher
    /\ pc \in {"load", "watch"} => watchers = 0
    /\ pc = "scrollbar" =>
            (watchers = 1 <=> last.arg \in {"watch_ok", "watch_load"})

\* C17 case: the session is under way, a reload has been delivered, and
\* there is still one watcher.
C17_Witness ==
    /\ pc = "run" /\ last.op = "Reload"
    /\ watchers = 1 /\ watcher = DefaultLight
    /\ registry[DefaultLight] = 0

\* C19. The name the watcher callback re-applies is fixed at init: it is the
\* theme name loaded from state.json at startup and never changes
\* afterwards; every reload that contains it makes it the global Theme's
\* theme name, whatever SwitchTheme did in between and whatever is on disk,
\* and the observer then persists it.
C19_ReloadRevertsToStartup ==
    [][/\ watcher' # watcher =>
            (pc = "watch" /\ watcher' = load(read_to_string(file)).theme)
       /\ (last'.op = "Reload" /\ registry'[watcher] # 0) =>
            /\ last'.arg = watcher
            /\ theme_name(theme') = watcher
            /\ notify'
       /\ (last.op = "Reload" /\ registry[watcher] # 0
               /\ last'.op = "Observe" /\ last'.arg = "ok") =>
            file'.theme = watcher]_vars

\* C19 case: started with "Default Dark" saved, the user switched to "Ocean"
\* and "Ocean" was persisted; a reload has just switched the global Theme
\* back to "Default Dark", and the observer is about to persist it.
C19_Witness ==
    /\ last.op = "Reload" /\ last.prev = Ocean
    /\ watcher = DefaultDark
    /\ file.theme = Ocean
    /\ theme_name(theme) = DefaultDark
    /\ notify

====
